---- MODULE Spec2Model ----
(***************************************************************************)
(* FnValue (src/features/cseMachine/components/values/FnValue.tsx): the    *)
(* closure node of the CSE machine diagram.  The model covers the          *)
(* constructor (memoization, anchor, size, enclosing environment, text     *)
(* artifacts), the hover handlers and draw.                                *)
(*                                                                         *)
(* Coordinates are held in quarter pixels: the constructor divides         *)
(* Config.FrameMarginX by 4 and Config.DataUnit{Width,Height} by 2, and    *)
(* with every pixel quantity multiplied by 4 those divisions are exact on  *)
(* the integers.  Px(v) is v pixels.                                       *)
(*                                                                         *)
(* Texts are sequences of one-character strings, so that length, slice,    *)
(* split and join are computed as String.prototype computes them.          *)
(***************************************************************************)
EXTENDS Integers, Sequences, FiniteSets, TLC

VARIABLES
    config,         \* the Config object of CseMachineConfig (fixed per run)
    nodes,          \* the FnValue objects constructed so far, in order
    values,         \* Layout.values: FunctionValue -> index into nodes, or 0
    refValue,       \* reference -> index of the node it holds (0: none yet)
    arrow,          \* per node: this._arrow
    circles,        \* per node: the circles emitted by the last draw
    labels,         \* per node: the label elements mounted by the last draw
    hovered,        \* per node: whether the last pointer event was an enter
    zTop,           \* the node whose glyph group was last moved to the top
    printableMode,  \* CseMachine.getPrintableMode()
    key,            \* Layout.key
    error           \* the exception that ended rendering, or "none"

vars == <<config, nodes, values, refValue, arrow, circles, labels, hovered, zTop,
          printableMode, key, error>>

\* Most references the layout pass hands to createValue in one build.
MaxRefs == 2

\* Largest value Layout.key is followed to.
MaxKey == 10

Undefined == "undefined"

\* An undefined EnvTreeNode and an undefined ArrowFromFn.
UndefinedNode == [environment |-> Undefined, frame |-> Undefined]

NoArrow == [from |-> 0, to |-> Undefined]

Px(v) == 4 * v

Max(a, b) == IF a >= b THEN a ELSE b

(***************************************************************************)
(* Text helpers: String.prototype.slice(0, n), split('\n'), join('\n').    *)
(***************************************************************************)
Slice(s, n) == SubSeq(s, 1, IF n <= Len(s) THEN n ELSE Len(s))

RECURSIVE Split(_)
Split(s) ==
    IF \E i \in 1..Len(s) : s[i] = "\n"
    THEN LET i == CHOOSE j \in 1..Len(s) :
                      s[j] = "\n" /\ \A k \in 1..(j - 1) : s[k] # "\n"
         IN  <<SubSeq(s, 1, i - 1)>> \o Split(SubSeq(s, i + 1, Len(s)))
    ELSE <<s>>

RECURSIVE Join(_)
Join(parts) ==
    IF Len(parts) = 0 THEN <<>>
    ELSE IF Len(parts) = 1 THEN parts[1]
    ELSE parts[1] \o <<"\n">> \o Join(Tail(parts))

\* getTextWidth of CseMachineUtils measures rendered text; one unit per
\* character stands for it.
getTextWidth(s) == Len(s)


(***************************************************************************)
(* The collaborators' data: Config, the runtime's function values, the     *)
(* environment tree and the referencing locations of one diagram.          *)
(***************************************************************************)
\* Config objects the diagram may be built under (pixels).
ConfigSet ==
    { [FnRadius |-> 15, FnInnerRadius |-> 1, DataUnitWidth |-> 40,
       DataUnitHeight |-> 40, FrameMarginX |-> 30,
       TextPaddingX |-> 10, TextPaddingY |-> 10],
      [FnRadius |-> 7, FnInnerRadius |-> 1, DataUnitWidth |-> 28,
       DataUnitHeight |-> 9, FrameMarginX |-> 5,
       TextPaddingX |-> 3, TextPaddingY |-> 2] }

\* Environments of the runtime.  "block" is an empty environment whose tail
\* is "prog"; "orphan" is not in the environment tree.
EmptyEnvs == {"block"}

EnvTail(env) == IF env = "block" THEN "prog" ELSE "global"

RECURSIVE getNonEmptyEnv(_)
getNonEmptyEnv(env) ==
    IF env \in EmptyEnvs THEN getNonEmptyEnv(EnvTail(env)) ELSE env

\* Layout.environmentTree.getTreeNode: the tree node of an environment, or
\* undefined.  The node of "global" has no frame.
getTreeNode(env) ==
    CASE env = "prog"   -> [environment |-> "prog", frame |-> "frame_prog"]
      [] env = "global" -> [environment |-> "global", frame |-> Undefined]
      [] OTHER          -> UndefinedNode

\* The function values of the runtime: getParamsText and getBodyText of
\* each are its params and body.
FnF ==
    [functionName |-> "f",
     params       |-> <<"x", ",", " ", "y">>,
     body         |-> <<"x", " ", "+", " ", "y">>,
     environment  |-> "block"]

FnG ==
    [functionName |-> "g",
     params       |-> <<"x", ",", " ", "y">>,
     body         |-> <<"{", "\n", " ", " ", "r", "e", "t", "u", "r", "n", " ",
                        "x", " ", "*", " ", "y", ";", "\n", "}">>,
     environment  |-> "global"]

FnH ==
    [functionName |-> "h",
     params       |-> <<>>,
     body         |-> <<"x", ";", "\n", "y", ";", "\n", "z">>,
     environment  |-> "orphan"]

Functions == {FnF, FnG, FnH}

\* The referencing locations: bindings (frame.x, frame.width, y) and array
\* units (x, y, isLastUnit, parent.height), in pixels.
Ref(kind, fx, fw, x, y, last, ph) ==
    [kind |-> kind, frameX |-> fx, frameWidth |-> fw, x |-> x, y |-> y,
     isLastUnit |-> last, parentHeight |-> ph]

References ==
    { Ref("Binding", 100, 40, 0, 50, FALSE, 0),
      Ref("Binding", 0, 25, 0, 3, FALSE, 0),
      Ref("ArrayUnit", 0, 0, 10, 10, TRUE, 20),
      Ref("ArrayUnit", 0, 0, 10, 10, FALSE, 20) }

(***************************************************************************)
(* FnValue constructor, lines 49-99.                                       *)
(***************************************************************************)
\* Anchor with the last-unit branch leaving out "- this.radius" (line 67).
Anchor_LastUnitNoRadius(mainReference, cfg) ==
    LET radius == Px(cfg.FnRadius) IN
    IF mainReference.kind = "Binding"
    THEN LET x0 == Px(mainReference.frameX) + Px(mainReference.frameWidth)
                     + cfg.FrameMarginX
             y0 == Px(mainReference.y)
         IN  [x |-> x0, y |-> y0 + radius, centerX |-> x0 + radius * 2]
    ELSE LET x0 == IF mainReference.isLastUnit
                   THEN Px(mainReference.x) + Px(cfg.DataUnitWidth) * 2
                   ELSE Px(mainReference.x)
             y0 == IF mainReference.isLastUnit
                   THEN Px(mainReference.y) + 2 * cfg.DataUnitHeight
                   ELSE Px(mainReference.y) + Px(mainReference.parentHeight)
                          + Px(cfg.DataUnitHeight)
             cx == x0 + 2 * cfg.DataUnitWidth
         IN  [x |-> cx - radius * 2, y |-> y0 + radius, centerX |-> cx]

\* Anchor without line 73: x is not recomputed from centerX.
Anchor_NoRecenter(mainReference, cfg) ==
    LET radius == Px(cfg.FnRadius) IN
    IF mainReference.kind = "Binding"
    THEN LET x0 == Px(mainReference.frameX) + Px(mainReference.frameWidth)
                     + cfg.FrameMarginX
             y0 == Px(mainReference.y)
         IN  [x |-> x0, y |-> y0 + radius, centerX |-> x0 + radius * 2]
    ELSE LET x0 == IF mainReference.isLastUnit
                   THEN Px(mainReference.x) + Px(cfg.DataUnitWidth) * 2
                   ELSE Px(mainReference.x)
             y0 == IF mainReference.isLastUnit
                   THEN Px(mainReference.y) + 2 * cfg.DataUnitHeight - radius
                   ELSE Px(mainReference.y) + Px(mainReference.parentHeight)
                          + Px(cfg.DataUnitHeight)
             cx == x0 + 2 * cfg.DataUnitWidth
         IN  [x |-> x0, y |-> y0 + radius, centerX |-> cx]

\* lines 59-75: x, y and centerX from the main reference (quarter pixels).
Anchor(mainReference, cfg) ==
    LET radius == Px(cfg.FnRadius) IN
    IF mainReference.kind = "Binding"
    THEN LET x0 == Px(mainReference.frameX) + Px(mainReference.frameWidth)
                     + cfg.FrameMarginX
             y0 == Px(mainReference.y)
         IN  [x |-> x0, y |-> y0 + radius, centerX |-> x0 + radius * 2]
    ELSE LET x0 == IF mainReference.isLastUnit
                   THEN Px(mainReference.x) + Px(cfg.DataUnitWidth) * 2
                   ELSE Px(mainReference.x)
             y0 == IF mainReference.isLastUnit
                   THEN Px(mainReference.y) + 2 * cfg.DataUnitHeight - radius
                   ELSE Px(mainReference.y) + Px(mainReference.parentHeight)
                          + Px(cfg.DataUnitHeight)
             cx == x0 + 2 * cfg.DataUnitWidth
         IN  [x |-> cx - radius * 2, y |-> y0 + radius, centerX |-> cx]

\* Size with the width of a single lobe.
Size_OneLobe(cfg) ==
    [width |-> Px(cfg.FnRadius) * 2, height |-> Px(cfg.FnRadius) * 2]

\* lines 77-78: the glyph's footprint.
Size(cfg) ==
    [width |-> Px(cfg.FnRadius) * 4, height |-> Px(cfg.FnRadius) * 2]

\* lines 85-98: the text artifacts.
ParamsPrefix == <<"p", "a", "r", "a", "m", "s", ":", " ", "(">>

BodyPrefix == <<"b", "o", "d", "y", ":", " ">>

Ellipsis == <<" ", ".", ".", ".">>

TextArtifacts(data) ==
    LET paramsText == ParamsPrefix \o data.params \o <<")">>
        bodyText   == BodyPrefix \o data.body
        head       == IF Len(bodyText) > 23 THEN Slice(bodyText, 20) ELSE bodyText
        exportBodyText == Join(Slice(Split(head), 2)) \o Ellipsis
    IN  [paramsText     |-> paramsText,
         bodyText       |-> bodyText,
         exportBodyText |-> exportBodyText,
         tooltip        |-> paramsText \o <<"\n">> \o bodyText,
         exportTooltip  |-> paramsText \o <<"\n">> \o exportBodyText,
         tooltipWidth   |-> Max(getTextWidth(paramsText), getTextWidth(bodyText)),
         exportTooltipWidth |->
             Max(getTextWidth(paramsText), getTextWidth(exportBodyText))]

\* lines 80-82: the enclosing environment's tree node.
EnclosingEnvNode(data) == getTreeNode(getNonEmptyEnv(data.environment))

\* The object the constructor leaves behind.
NewFnValue(data, referencedBy, cfg) ==
    LET a == Anchor(referencedBy[1], cfg)
        s == Size(cfg)
        t == TextArtifacts(data)
    IN  [data |-> data, referencedBy |-> referencedBy,
         radius |-> Px(cfg.FnRadius), innerRadius |-> Px(cfg.FnInnerRadius),
         x |-> a.x, y |-> a.y, centerX |-> a.centerX,
         width |-> s.width, height |-> s.height,
         enclosingEnvNode |-> EnclosingEnvNode(data),
         fnName |-> data.functionName,
         paramsText |-> t.paramsText, bodyText |-> t.bodyText,
         exportBodyText |-> t.exportBodyText,
         tooltip |-> t.tooltip, exportTooltip |-> t.exportTooltip,
         tooltipWidth |-> t.tooltipWidth,
         exportTooltipWidth |-> t.exportTooltipWidth]

\* Layout.memoizeValue(value): Layout.values.set(value.data, value).
memoizeValue(vals, data, n) == [vals EXCEPT ![data] = n]

\* The constructor without line 56: the new object is not registered.
FnValueConstructor_Unregistered(data, referencedBy) ==
    /\ nodes' = Append(nodes, NewFnValue(data, referencedBy, config))
    /\ values' = values
    /\ arrow' = Append(arrow, NoArrow)
    /\ circles' = Append(circles, <<>>)
    /\ labels' = Append(labels, {})
    /\ hovered' = Append(hovered, FALSE)

\* new FnValue(data, referencedBy): line 56 registers the new object, the
\* rest of the constructor fills it in.
FnValueConstructor(data, referencedBy) ==
    /\ nodes' = Append(nodes, NewFnValue(data, referencedBy, config))
    /\ values' = memoizeValue(values, data, Len(nodes) + 1)
    /\ arrow' = Append(arrow, NoArrow)
    /\ circles' = Append(circles, <<>>)
    /\ labels' = Append(labels, {})
    /\ hovered' = Append(hovered, FALSE)


(***************************************************************************)
(* The layout pass: Layout.createValue(data, reference), called by each    *)
(* referencing location, which keeps the value returned.                   *)
(***************************************************************************)
UsedRefs == {r \in References : refValue[r] # 0}

\* Value.addReference: referencedBy.push(reference).
addReference(n, ref) ==
    nodes' = [nodes EXCEPT ![n].referencedBy = Append(@, ref)]

createValue(data, ref) ==
    /\ error = "none"
    /\ refValue[ref] = 0
    /\ Cardinality(UsedRefs) < MaxRefs
    /\ IF values[data] # 0
       THEN /\ addReference(values[data], ref)
            /\ refValue' = [refValue EXCEPT ![ref] = values[data]]
            /\ UNCHANGED <<values, arrow, circles, labels, hovered>>
       ELSE /\ FnValueConstructor(data, <<ref>>)
            /\ refValue' = [refValue EXCEPT ![ref] = Len(nodes) + 1]
    /\ UNCHANGED <<config, zTop, printableMode, key, error>>

(***************************************************************************)
(* Hover handlers, lines 101-110.  They are attached to the Group that     *)
(* draw emits, so they run only for a node that has been drawn.            *)
(***************************************************************************)
Drawn(n) == labels[n] # {}

SetVisible(ls, v) == {[l EXCEPT !.visible = v] : l \in ls}

\* onMouseEnter that raises the glyph but does not show the label.
onMouseEnter_NoShow(n) ==
    /\ error = "none"
    /\ Drawn(n)
    /\ hovered' = [hovered EXCEPT ![n] = TRUE]
    /\ IF printableMode
       THEN UNCHANGED <<zTop, labels>>
       ELSE /\ zTop' = n
            /\ UNCHANGED labels
    /\ UNCHANGED <<config, nodes, values, refValue, arrow, circles,
                   printableMode, key, error>>

onMouseEnter(n) ==
    /\ error = "none"
    /\ Drawn(n)
    /\ hovered' = [hovered EXCEPT ![n] = TRUE]
    /\ IF printableMode
       THEN UNCHANGED <<zTop, labels>>
       ELSE /\ zTop' = n
            /\ labels' = [labels EXCEPT ![n] = SetVisible(@, TRUE)]
    /\ UNCHANGED <<config, nodes, values, refValue, arrow, circles,
                   printableMode, key, error>>

\* onMouseLeave without the printable-mode return of line 108.
onMouseLeave_Unguarded(n) ==
    /\ error = "none"
    /\ Drawn(n)
    /\ hovered' = [hovered EXCEPT ![n] = FALSE]
    /\ labels' = [labels EXCEPT ![n] = SetVisible(@, FALSE)]
    /\ UNCHANGED <<config, nodes, values, refValue, arrow, circles, zTop,
                   printableMode, key, error>>

onMouseLeave(n) ==
    /\ error = "none"
    /\ Drawn(n)
    /\ hovered' = [hovered EXCEPT ![n] = FALSE]
    /\ IF printableMode
       THEN UNCHANGED labels
       ELSE labels' = [labels EXCEPT ![n] = SetVisible(@, FALSE)]
    /\ UNCHANGED <<config, nodes, values, refValue, arrow, circles, zTop,
                   printableMode, key, error>>

(***************************************************************************)
(* draw, lines 112-194.                                                    *)
(***************************************************************************)
\* lines 123-154: the four circles of the glyph.
Circles(node) ==
    << [x |-> node.centerX - node.radius, y |-> node.y, radius |-> node.radius],
       [x |-> node.centerX - node.radius, y |-> node.y, radius |-> node.innerRadius],
       [x |-> node.centerX + node.radius, y |-> node.y, radius |-> node.radius],
       [x |-> node.centerX + node.radius, y |-> node.y, radius |-> node.innerRadius] >>

\* lines 156-190: the label, chosen by the mode flag read at draw time.
Label(node, printable, cfg) ==
    IF printable
    THEN { [variant |-> "printable",
            x |-> node.x + node.width + Px(cfg.TextPaddingX) * 2,
            y |-> node.y - Px(cfg.TextPaddingY),
            visible |-> TRUE, text |-> node.exportTooltip] }
    ELSE { [variant |-> "interactive",
            x |-> node.x + node.width + Px(cfg.TextPaddingX) * 2,
            y |-> node.y - Px(cfg.TextPaddingY),
            visible |-> FALSE, text |-> node.tooltip] }

\* lines 113-115: the connector to the enclosing environment's frame.
Connector(n, node) ==
    IF node.enclosingEnvNode.frame # Undefined
    THEN [from |-> n, to |-> node.enclosingEnvNode.frame]
    ELSE NoArrow

\* draw that applies the radius shift of line 75 again on every call.
draw_Shifting(n) ==
    /\ error = "none"
    /\ n \in 1..Len(nodes)
    /\ key + 5 <= MaxKey
    /\ IF nodes[n].enclosingEnvNode = UndefinedNode
       THEN /\ error' = "TypeError"
            /\ UNCHANGED <<nodes, arrow, circles, labels, key>>
       ELSE /\ nodes' = [nodes EXCEPT ![n].y = @ + nodes[n].radius]
            /\ arrow' = [arrow EXCEPT ![n] = Connector(n, nodes[n])]
            /\ circles' = [circles EXCEPT ![n] = Circles(nodes[n])]
            /\ labels' = [labels EXCEPT ![n] = Label(nodes[n], printableMode, config)]
            /\ key' = key + 5
            /\ UNCHANGED error
    /\ UNCHANGED <<config, values, refValue, hovered, zTop, printableMode>>

draw(n) ==
    /\ error = "none"
    /\ n \in 1..Len(nodes)
    /\ key + 5 <= MaxKey
    /\ IF nodes[n].enclosingEnvNode = UndefinedNode
       THEN \* line 114 reads .frame of undefined
            /\ error' = "TypeError"
            /\ UNCHANGED <<arrow, circles, labels, key>>
       ELSE /\ arrow' = [arrow EXCEPT ![n] = Connector(n, nodes[n])]
            /\ circles' = [circles EXCEPT ![n] = Circles(nodes[n])]
            /\ labels' = [labels EXCEPT ![n] = Label(nodes[n], printableMode, config)]
            /\ key' = key + 5
            /\ UNCHANGED error
    /\ UNCHANGED <<config, nodes, values, refValue, hovered, zTop, printableMode>>

\* CseMachine.togglePrintableMode.
togglePrintableMode ==
    /\ error = "none"
    /\ printableMode' = ~printableMode
    /\ UNCHANGED <<config, nodes, values, refValue, arrow, circles, labels,
                   hovered, zTop, key, error>>

Init ==
    /\ config \in ConfigSet
    /\ nodes = <<>>
    /\ values = [d \in Functions |-> 0]
    /\ refValue = [r \in References |-> 0]
    /\ arrow = <<>>
    /\ circles = <<>>
    /\ labels = <<>>
    /\ hovered = <<>>
    /\ zTop = 0
    /\ printableMode = FALSE
    /\ key = 0
    /\ error = "none"

Next ==
    \/ \E data \in Functions, ref \in References : createValue(data, ref)
    \/ \E n \in 1..Len(nodes) : draw(n)
    \/ \E n \in 1..Len(nodes) : onMouseEnter(n)
    \/ \E n \in 1..Len(nodes) : onMouseLeave(n)
    \/ togglePrintableMode

Spec == Init /\ [][Next]_vars


(***************************************************************************)
(* Properties.                                                             *)
(***************************************************************************)
NodeIds == 1..Len(nodes)

MainReference(n) == nodes[n].referencedBy[1]

LabelVisible(n) == \E l \in labels[n] : l.visible

LabelHidden(n) == \A l \in labels[n] : ~l.visible

C2_Original ==
    [][\A n \in NodeIds :
          (printableMode /\ (onMouseEnter(n) \/ onMouseLeave(n)))
              => (labels' = labels /\ \A l \in labels'[n] : l.visible)]_vars

\* C2 amended: a hover handler run while the mode flag is printable leaves
\* every label as it was, and a draw made in printable mode leaves the
\* node's label visible; so a label drawn in printable mode stays visible
\* for as long as the mode stays printable.
C2_Amended ==
    [][\A n \in NodeIds :
          /\ (printableMode /\ (onMouseEnter(n) \/ onMouseLeave(n)))
                 => labels' = labels
          /\ (printableMode /\ draw(n))
                 => \A l \in labels'[n] : l.visible]_vars

C2_Witness ==
    \E n \in NodeIds :
        /\ printableMode
        /\ hovered[n]
        /\ \E l \in labels[n] : l.variant = "printable" /\ l.visible

\* C3 as stated: in interactive mode the label is visible only while the
\* node is hovered, whatever draws, hover events and mode changes came
\* before.
C3_Original ==
    \A n \in NodeIds :
        (~printableMode /\ LabelVisible(n)) => hovered[n]

\* C3 amended: in interactive mode a draw leaves the label hidden,
\* onMouseEnter leaves it visible and onMouseLeave leaves it hidden.
C3_Amended ==
    [][\A n \in NodeIds :
          ~printableMode =>
              /\ draw(n) => LabelHidden(n)'
              /\ onMouseEnter(n) => (labels'[n] # {} /\ \A l \in labels'[n] : l.visible)
              /\ onMouseLeave(n) => LabelHidden(n)']_vars

C3_Witness ==
    \E n \in NodeIds :
        /\ ~printableMode
        /\ hovered[n]
        /\ \E l \in labels[n] : l.variant = "interactive" /\ l.visible

\* C4: every draw call emits exactly one label: the printable one
\* (exportTooltip, visible) when the mode flag is printable at that draw,
\* the interactive one (tooltip, hidden) otherwise.
C4_ModeExclusivity ==
    [][\A n \in NodeIds :
          draw(n) =>
              /\ Cardinality(labels'[n]) = 1
              /\ \A l \in labels'[n] :
                     IF printableMode
                     THEN /\ l.variant = "printable"
                          /\ l.text = nodes[n].exportTooltip
                          /\ l.visible
                     ELSE /\ l.variant = "interactive"
                          /\ l.text = nodes[n].tooltip
                          /\ ~l.visible]_vars

\* C5: a node whose bodyText has at most 23 characters has an exportTooltip
\* identical to its tooltip.
C5_ShortBody ==
    \A n \in NodeIds :
        Len(nodes[n].bodyText) <= 23 => nodes[n].exportTooltip = nodes[n].tooltip

\* C6: no construction and no draw raises an error, whatever the lookup of
\* the enclosing environment gave; a drawn node has a connector to the
\* enclosing environment's frame exactly when that frame exists.
C6_GracefulDegradation ==
    /\ error = "none"
    /\ \A n \in NodeIds :
           Drawn(n) =>
               arrow[n] = IF nodes[n].enclosingEnvNode.frame # Undefined
                          THEN [from |-> n, to |-> nodes[n].enclosingEnvNode.frame]
                          ELSE NoArrow

IsLastUnit(r) == r.kind = "ArrayUnit" /\ r.isLastUnit

\* C7 as stated: a node whose primary reference is a last unit at (sx, sy)
\* has x = sx + 2*sw and stored y = sy + sh/2.
C7_Original ==
    \A n \in NodeIds :
        IsLastUnit(MainReference(n)) =>
            /\ nodes[n].x = Px(MainReference(n).x) + 2 * Px(config.DataUnitWidth)
            /\ nodes[n].y = Px(MainReference(n).y) + 2 * config.DataUnitHeight

\* C7 amended: a node whose primary reference is a last unit at (sx, sy)
\* has centerX = sx + 2*sw + sw/2, x = centerX - 2*radius and stored
\* y = sy + sh/2 (sy + sh/2 - radius before the radius shift).
C7_Amended ==
    \A n \in NodeIds :
        IsLastUnit(MainReference(n)) =>
            /\ nodes[n].centerX = Px(MainReference(n).x)
                                    + 2 * Px(config.DataUnitWidth)
                                    + 2 * config.DataUnitWidth
            /\ nodes[n].x = nodes[n].centerX - 2 * Px(config.FnRadius)
            /\ nodes[n].y = Px(MainReference(n).y) + 2 * config.DataUnitHeight

C7_Witness ==
    \E n \in NodeIds :
        /\ IsLastUnit(MainReference(n))
        /\ nodes[n].x # Px(MainReference(n).x) + 2 * Px(config.DataUnitWidth)

\* C8: every node has width 4*radius and height 2*radius, in every state.
C8_Geometry ==
    \A n \in NodeIds :
        /\ nodes[n].width = 4 * Px(config.FnRadius)
        /\ nodes[n].height = 2 * Px(config.FnRadius)

C8_Witness ==
    /\ \E n \in NodeIds : MainReference(n).kind = "Binding" /\ hovered[n]
    /\ \E n \in NodeIds : MainReference(n).kind = "ArrayUnit" /\ Drawn(n)
    /\ printableMode

C10_CenterX ==
    \A n \in NodeIds :
        /\ nodes[n].centerX = nodes[n].x + 2 * nodes[n].radius
        /\ Drawn(n) =>
               /\ circles[n][1].x - circles[n][1].radius = nodes[n].x
               /\ circles[n][3].x + circles[n][3].radius
                      = nodes[n].x + nodes[n].width

C10_Witness ==
    \E n \in NodeIds :
        /\ MainReference(n).kind = "ArrayUnit"
        /\ ~MainReference(n).isLastUnit
        /\ Drawn(n)

====
